---- MODULE Spec2Model ----
(***************************************************************************)
(* MedStats PRO: the record classification and aggregation engine          *)
(* (src/utils/dataProcessor.ts), the application state that feeds it       *)
(* (src/App.tsx) and the Word report (src/utils/wordExport.ts).            *)
(*                                                                         *)
(* A JavaScript string is modelled as a sequence of characters.  An ASCII  *)
(* character is the one-character string holding it; any other character   *)
(* is named by its code point ("U+00F3" is o with acute, "U+0301" the      *)
(* combining acute accent, "U+0009" the tab).                              *)
(***************************************************************************)
EXTENDS Integers, Sequences, FiniteSets, TLC

VARIABLES
    arg,              \* argument of the engine function under test
    ret,              \* sequence of the results returned so far; App: the report just downloaded
    data,             \* App: useState data
    loading,          \* App: useState loading
    filterSpecialist, \* App: useState filterSpecialist
    searchTerm,       \* App: useState searchTerm
    reading,          \* App: files handed to a FileReader whose onload has not run yet
    filteredData,     \* App: useMemo filteredData
    dateRange,        \* App: useMemo dateRange
    summary,          \* App: useMemo summary
    timezone          \* hours the local time zone of the browser is behind UTC

vars == <<arg, ret, data, loading, filterSpecialist, searchTerm, reading,
          filteredData, dateRange, summary, timezone>>

appVars == <<data, loading, filterSpecialist, searchTerm, reading,
             filteredData, dateRange, summary>>

(***************************************************************************)
(* Characters and the String.prototype methods the sources call.           *)
(***************************************************************************)
LowerCaseLetters ==
    <<"a","b","c","d","e","f","g","h","i","j","k","l","m",
      "n","o","p","q","r","s","t","u","v","w","x","y","z">>

UpperCaseLetters ==
    <<"A","B","C","D","E","F","G","H","I","J","K","L","M",
      "N","O","P","Q","R","S","T","U","V","W","X","Y","Z">>

Digits == <<"0","1","2","3","4","5","6","7","8","9">>

RangeOf(s) == {s[i] : i \in 1..Len(s)}

IndexIn(c, s) == CHOOSE i \in 1..Len(s) : s[i] = c

\* the sequences of a sequence of sequences joined in order
RECURSIVE Concat(_)
Concat(ss) == IF ss = <<>> THEN <<>> ELSE Head(ss) \o Concat(Tail(ss))

\* canonical decomposition of one character (String.prototype.normalize("NFD"))
NFDChar(c) ==
    CASE c = "U+00E1" -> <<"a", "U+0301">>
      [] c = "U+00F3" -> <<"o", "U+0301">>
      [] c = "U+00D3" -> <<"O", "U+0301">>
      [] c = "U+00F1" -> <<"n", "U+0303">>
      [] c = "U+00D1" -> <<"N", "U+0303">>
      [] OTHER -> <<c>>

\* the regular expression class [\u0300-\u036f]
IsCombiningMark(c) == c \in {"U+0301", "U+0303"}

\* the precomposed accented letters of the alphabet
IsAccentedLetter(c) == c \in {"U+00E1", "U+00F3", "U+00D3", "U+00F1", "U+00D1"}

\* String.prototype.toUpperCase on one character
ToUpperChar(c) ==
    CASE c \in RangeOf(LowerCaseLetters) -> <<UpperCaseLetters[IndexIn(c, LowerCaseLetters)]>>
      [] c = "U+00DF" -> <<"S", "S">>
      [] c = "U+00E1" -> <<"U+00C1">>
      [] c = "U+00F3" -> <<"U+00D3">>
      [] c = "U+00F1" -> <<"U+00D1">>
      [] OTHER -> <<c>>

\* String.prototype.toLowerCase on one character
ToLowerChar(c) ==
    CASE c \in RangeOf(UpperCaseLetters) -> <<LowerCaseLetters[IndexIn(c, UpperCaseLetters)]>>
      [] c = "U+00C1" -> <<"U+00E1">>
      [] c = "U+00D3" -> <<"U+00F3">>
      [] c = "U+00D1" -> <<"U+00F1">>
      [] OTHER -> <<c>>

IsLowerCase(c) ==
    c \in RangeOf(LowerCaseLetters) \cup {"U+00DF", "U+00E1", "U+00F3", "U+00F1"}

\* the regular expression class [().,;:-]
IsPunctuation(c) == c \in {"(", ")", ".", ",", ";", ":", "-"}

\* the regular expression class \s, also what String.prototype.trim removes
IsWhiteSpace(c) == c \in {" ", "U+0009", "U+000A", "U+00A0"}

toUpperCase(s) == Concat([i \in 1..Len(s) |-> ToUpperChar(s[i])])

toLowerCase(s) == Concat([i \in 1..Len(s) |-> ToLowerChar(s[i])])

RECURSIVE TrimStart(_)
TrimStart(s) ==
    IF s # <<>> /\ IsWhiteSpace(Head(s)) THEN TrimStart(Tail(s)) ELSE s

RECURSIVE TrimEnd(_)
TrimEnd(s) ==
    IF s # <<>> /\ IsWhiteSpace(s[Len(s)]) THEN TrimEnd(SubSeq(s, 1, Len(s) - 1)) ELSE s

trim(s) == TrimEnd(TrimStart(s))

\* String.prototype.includes
includes(s, sub) ==
    \E i \in 0..(Len(s) - Len(sub)) : SubSeq(s, i + 1, i + Len(sub)) = sub

(***************************************************************************)
(* normalize, dataProcessor.ts                                             *)
(***************************************************************************)
\* String.prototype.normalize("NFD")
NFD(s) == Concat([i \in 1..Len(s) |-> NFDChar(s[i])])

RemoveAccents(s) == LET Keep(c) == ~IsCombiningMark(c) IN SelectSeq(s, Keep)

ReplacePunctuation(s) == [i \in 1..Len(s) |-> IF IsPunctuation(s[i]) THEN " " ELSE s[i]]

\* .replace(/\s+/g, ' '): every maximal run of white space becomes one space
RECURSIVE CollapseSpaces(_)
CollapseSpaces(s) ==
    IF s = <<>> THEN <<>>
    ELSE IF IsWhiteSpace(Head(s))
         THEN <<" ">> \o CollapseSpaces(TrimStart(s))
         ELSE <<Head(s)>> \o CollapseSpaces(Tail(s))

\* a value that is undefined in JavaScript; no string holds this token
Undefined == <<"undefined">>

\* x || dflt on a string or undefined x
OrElse(x, dflt) == IF x = Undefined \/ x = <<>> THEN dflt ELSE x

\* normalize with the white space collapsed before the punctuation is replaced
NormalizeCollapseFirst(str) ==
    trim(ReplacePunctuation(CollapseSpaces(toUpperCase(RemoveAccents(
        NFD(OrElse(str, <<>>)))))))

\* normalize without the final trim
NormalizeNoTrim(str) ==
    CollapseSpaces(ReplacePunctuation(toUpperCase(RemoveAccents(
        NFD(OrElse(str, <<>>))))))

normalize(str) ==
    trim(CollapseSpaces(ReplacePunctuation(toUpperCase(RemoveAccents(
        NFD(OrElse(str, <<>>)))))))

(***************************************************************************)
(* The state of the application before any file is loaded, App.tsx.        *)
(***************************************************************************)
All == <<"A", "l", "l">>

EmptyRange == [min |-> <<>>, max |-> <<>>]

NoSummary == [threw |-> FALSE, value |-> <<>>]

AppInit ==
    /\ data = <<>>
    /\ loading = FALSE
    /\ filterSpecialist = All
    /\ searchTerm = <<>>
    /\ reading = <<>>
    /\ filteredData = <<>>
    /\ dateRange = EmptyRange
    /\ summary = NoSummary

(***************************************************************************)
(* The normalizer on its own: every string over NormAlphabet of at most    *)
(* MaxStrLen characters, the string of the documented example, and an      *)
(* absent argument.                                                        *)
(***************************************************************************)
MaxStrLen == 3

NormAlphabet == {"o", "X", "U+00F3", "U+0301", "U+00DF", "(", "-", " ", "U+0009"}

RECURSIVE StringsUpTo(_, _)
StringsUpTo(alphabet, n) ==
    IF n = 0 THEN {<<>>}
    ELSE LET shorter == StringsUpTo(alphabet, n - 1)
         IN  shorter \cup {Append(s, c) : s \in shorter, c \in alphabet}

ToraxContraste ==
    <<"T","U+00F3","r","a","x"," ","(","C","o","n","t","r","a","s","t","e",")">>

NormInputs == StringsUpTo(NormAlphabet, MaxStrLen) \cup {ToraxContraste, Undefined}

NormInit ==
    /\ arg \in NormInputs
    /\ ret = <<>>
    /\ timezone = 0
    /\ AppInit

\* normalize(arg)
Normalize ==
    /\ Len(ret) = 0
    /\ ret' = <<normalize(arg)>>
    /\ UNCHANGED <<arg, appVars, timezone>>

\* normalize applied to the result of the first call
NormalizeAgain ==
    /\ Len(ret) = 1
    /\ ret' = Append(ret, normalize(ret[1]))
    /\ UNCHANGED <<arg, appVars, timezone>>

NormNext == Normalize \/ NormalizeAgain

SpecNorm == NormInit /\ [][NormNext]_vars

(***************************************************************************)
(* classifyRecord, dataProcessor.ts.  A record carries the nine fields of  *)
(* a study and the derived subcategory; the subcategory of a record that   *)
(* has not been classified is "undefined".                                 *)
(***************************************************************************)
\* the reference list of contrast procedures of the CT rule
CONTRASTADOS_PROCEDURES == << <<"U","R","O","T","A","C">>, <<"A","N","G","I","O","-","T","A","C">> >>

\* the reference list of special procedures of the CR rule
ESPECIALES_PROCEDURES == << <<"C","o","l","o","n"," ","p","o","r"," ","e","n","e","m","a">>, <<"T","r","U+00E1","n","s","i","t","o"," ","i","n","t","e","s","t","i","n","a","l">> >>

ContrastKeywords == << <<"C","O","N","T","R","A","S","T","E">>, <<"C","O","N","T","R","A","S","T","A","D","O">> >>

\* list.some(p => descNormalized.includes(normalize(p)))
SomeIncluded(descNormalized, list) ==
    \E i \in 1..Len(list) : includes(descNormalized, normalize(list[i]))

\* classifyRecord comparing the modality as written, neither upper-cased nor
\* trimmed
SubcategoryRawModality(record) ==
    LET descNormalized == normalize(OrElse(record.descripcion, <<>>))
        mod == OrElse(record.modalidad, <<>>)
        hasContrastKeywords ==
            \/ includes(descNormalized, ContrastKeywords[1])
            \/ includes(descNormalized, ContrastKeywords[2])
    IN  IF hasContrastKeywords THEN "CONTRASTADOS"
        ELSE IF mod = <<"C","T">>
             THEN IF SomeIncluded(descNormalized, CONTRASTADOS_PROCEDURES)
                  THEN "CONTRASTADOS" ELSE "STANDARD"
        ELSE IF mod = <<"C","R">>
             THEN IF SomeIncluded(descNormalized, ESPECIALES_PROCEDURES)
                  THEN "ESPECIALES" ELSE "STANDARD"
        ELSE "STANDARD"

\* classifyRecord with the modality rules tried before the contrast keywords
SubcategoryModalityFirst(record) ==
    LET descNormalized == normalize(OrElse(record.descripcion, <<>>))
        mod == trim(toUpperCase(OrElse(record.modalidad, <<>>)))
        hasContrastKeywords ==
            \/ includes(descNormalized, ContrastKeywords[1])
            \/ includes(descNormalized, ContrastKeywords[2])
    IN  IF mod = <<"C","T">>
        THEN IF SomeIncluded(descNormalized, CONTRASTADOS_PROCEDURES)
             THEN "CONTRASTADOS" ELSE "STANDARD"
        ELSE IF mod = <<"C","R">>
             THEN IF SomeIncluded(descNormalized, ESPECIALES_PROCEDURES)
                  THEN "ESPECIALES" ELSE "STANDARD"
        ELSE IF hasContrastKeywords THEN "CONTRASTADOS"
        ELSE "STANDARD"

\* classifyRecord with the special-procedure list applied to every modality but CT
SubcategoryAnyModalitySpecial(record) ==
    LET descNormalized == normalize(OrElse(record.descripcion, <<>>))
        mod == trim(toUpperCase(OrElse(record.modalidad, <<>>)))
        hasContrastKeywords ==
            \/ includes(descNormalized, ContrastKeywords[1])
            \/ includes(descNormalized, ContrastKeywords[2])
    IN  IF hasContrastKeywords THEN "CONTRASTADOS"
        ELSE IF mod = <<"C","T">>
             THEN IF SomeIncluded(descNormalized, CONTRASTADOS_PROCEDURES)
                  THEN "CONTRASTADOS" ELSE "STANDARD"
        ELSE IF SomeIncluded(descNormalized, ESPECIALES_PROCEDURES)
             THEN "ESPECIALES" ELSE "STANDARD"

\* the subcategory classifyRecord computes for a record
Subcategory(record) ==
    LET rawDesc == OrElse(record.descripcion, <<>>)
        descNormalized == normalize(rawDesc)
        mod == trim(toUpperCase(OrElse(record.modalidad, <<>>)))
        hasContrastKeywords ==
            \/ includes(descNormalized, ContrastKeywords[1])
            \/ includes(descNormalized, ContrastKeywords[2])
    IN  IF hasContrastKeywords THEN "CONTRASTADOS"
        ELSE IF mod = <<"C","T">>
             THEN IF SomeIncluded(descNormalized, CONTRASTADOS_PROCEDURES)
                  THEN "CONTRASTADOS" ELSE "STANDARD"
        ELSE IF mod = <<"C","R">>
             THEN IF SomeIncluded(descNormalized, ESPECIALES_PROCEDURES)
                  THEN "ESPECIALES" ELSE "STANDARD"
        ELSE "STANDARD"

\* a classifier that also stores the modality it compared: upper-cased and
\* trimmed
classifyRecordCleanModality(record) ==
    [record EXCEPT !.subcategory = Subcategory(record),
                   !.modalidad = trim(toUpperCase(OrElse(record.modalidad, <<>>)))]

\* a classifier with memory of its own output: a record that already carries
\* a subcategory is returned as STANDARD
classifyRecordOnlyUnclassified(record) ==
    [record EXCEPT !.subcategory =
        IF record.subcategory \in {"CONTRASTADOS", "ESPECIALES", "STANDARD"}
        THEN "STANDARD"
        ELSE Subcategory(record)]

classifyRecord(record) == [record EXCEPT !.subcategory = Subcategory(record)]

(***************************************************************************)
(* The classifier on its own: one record per combination of the modality   *)
(* and description values below, the other fields fixed.                   *)
(***************************************************************************)
ClassifierModalities ==
    { <<"C","T">>, <<" ","c","t">>, <<"C","R">>, <<"c","r">>, <<"U","S">>, <<"M","G">>, <<"X","X">>, <<>>, Undefined }

ClassifierDescriptions ==
    { <<>>, Undefined,
      <<"T","A","C"," ","a","b","d","o","m","e","n">>,
      <<"T","A","C"," ","a","b","d","o","m","e","n"," ","(","c","o","n"," ","c","o","n","t","r","a","s","t","e",")">>,
      <<"T","U+00F3","r","a","x"," ","c","o","n","t","r","a","s","t","a","d","o">>,
      <<"U","r","o","t","a","c"," ","s","i","m","p","l","e">>,
      <<"A","n","g","i","o","-","T","A","C">>,
      <<"C","o","l","o","n"," ","p","o","r"," ","e","n","e","m","a">>,
      <<"C","o","l","o","n"," ","p","o","r"," ","e","n","e","m","a"," ","c","o","n"," ","c","o","n","t","r","a","s","t","e">>,
      <<"T","r","a","n","s","i","t","o"," ","i","n","t","e","s","t","i","n","a","l">>,
      <<"R","x"," ","d","e"," ","t","U+00F3","r","a","x">>,
      <<"C","o","n","t","r","a","-","s","t","e">> }

\* a study with the given description, modality, specialist and date
Study(descripcion, modalidad, realizado_por, fecha_realizado) ==
    [ id_paciente      |-> <<"P","1">>,
      nombre_paciente  |-> <<"A","n","a">>,
      descripcion      |-> descripcion,
      region           |-> <<"T","O","R","A","X">>,
      fecha_realizado  |-> fecha_realizado,
      modalidad        |-> modalidad,
      realizado_por    |-> realizado_por,
      estado_reporte   |-> <<"O","K">>,
      fecha_reporte    |-> <<"2","0","2","4","-","0","1","-","1","1">>,
      subcategory      |-> "undefined" ]

ClassifierInputs ==
    { Study(d, m, <<"A">>, <<"2","0","2","4","-","0","1","-","1","0">>) : d \in ClassifierDescriptions, m \in ClassifierModalities }

ClassifyInit ==
    /\ arg \in ClassifierInputs
    /\ ret = <<>>
    /\ timezone = 0
    /\ AppInit

\* classifyRecord(arg)
Classify ==
    /\ Len(ret) = 0
    /\ ret' = <<classifyRecord(arg)>>
    /\ UNCHANGED <<arg, appVars, timezone>>

\* classifyRecord applied to the record the first call returned
ClassifyAgain ==
    /\ Len(ret) = 1
    /\ ret' = Append(ret, classifyRecord(ret[1]))
    /\ UNCHANGED <<arg, appVars, timezone>>

\* classifyRecord(arg) once more, after the calls made so far
ClassifySameAgain ==
    /\ Len(ret) \in 1..2
    /\ ret' = Append(ret, classifyRecord(arg))
    /\ UNCHANGED <<arg, appVars, timezone>>

ClassifyNext == Classify \/ ClassifyAgain \/ ClassifySameAgain

SpecClassify == ClassifyInit /\ [][ClassifyNext]_vars

(***************************************************************************)
(* getSummaryBySpecialist, dataProcessor.ts.  The accumulator object of    *)
(* the reduce is the sequence of its own properties in creation order; a   *)
(* count map (modalities, subcategories) is a function from its keys.      *)
(***************************************************************************)
\* the number NaN: a value that no count and no instant of the model takes
NaN == -2147483647

\* x + 1 on a number that may be NaN, and undefined + 1
Increment(x) == IF x = NaN THEN NaN ELSE x + 1

SIN_ASIGNAR == <<"S","I","N"," ","A","S","I","G","N","A","R">>

N_A == <<"N","/","A">>

Subcategories == {"CONTRASTADOS", "ESPECIALES", "STANDARD"}

\* names every object inherits from Object.prototype: acc[name] is truthy
\* for them although acc has no such property of its own
ObjectPrototypeKeys == { <<"c","o","n","s","t","r","u","c","t","o","r">>, <<"t","o","S","t","r","i","n","g">>, <<"v","a","l","u","e","O","f">>, <<"_","_","p","r","o","t","o","_","_">> }

IsDigit(c) == c \in RangeOf(Digits)

DigitValue(c) == IndexIn(c, Digits) - 1

\* a < b or a = b for two canonical decimal numerals
NumeralAtMost(a, b) ==
    \/ Len(a) < Len(b)
    \/ /\ Len(a) = Len(b)
       /\ \/ a = b
          \/ \E i \in 1..Len(a) :
                /\ SubSeq(a, 1, i - 1) = SubSeq(b, 1, i - 1)
                /\ DigitValue(a[i]) < DigitValue(b[i])

\* 2^32 - 2, the largest array index
MaxArrayIndex == <<"4","2","9","4","9","6","7","2","9","4">>

\* a property key that is an array index: the canonical decimal form of an
\* integer in 0 .. 2^32 - 2
IsArrayIndex(key) ==
    /\ key # <<>>
    /\ \A i \in 1..Len(key) : IsDigit(key[i])
    /\ Len(key) > 1 => key[1] # "0"
    /\ NumeralAtMost(key, MaxArrayIndex)

\* a group started without its three subcategory counters
NewSummaryNoSubcategories(spec) ==
    [ specialist    |-> spec,
      totalStudies  |-> 0,
      modalities    |-> [k \in {} |-> 0],
      subcategories |-> [k \in {} |-> 0] ]

\* the summary a group starts with (lines 49-58)
NewSummary(spec) ==
    [ specialist    |-> spec,
      totalStudies  |-> 0,
      modalities    |-> [k \in {} |-> 0],
      subcategories |-> [k \in Subcategories |-> 0] ]

\* map[key] = 1, the count already stored forgotten
CountOneOverwrite(map, key) ==
    [k \in DOMAIN map \cup {key} |-> IF k = key THEN 1 ELSE map[k]]

\* map[key] = (map[key] || 0) + 1
CountOne(map, key) ==
    IF key \in DOMAIN map
    THEN [map EXCEPT ![key] = Increment(map[key])]
    ELSE [k \in DOMAIN map \cup {key} |-> IF k = key THEN 1 ELSE map[k]]

\* map[key]++ : a key the map lacks reads undefined and is stored as NaN
PlusPlus(map, key) ==
    IF key \in DOMAIN map
    THEN [map EXCEPT ![key] = Increment(map[key])]
    ELSE [k \in DOMAIN map \cup {key} |-> IF k = key THEN NaN ELSE map[k]]

\* the index in groups of the summary of spec, 0 when there is none
GroupIndex(groups, spec) ==
    IF \E i \in 1..Len(groups) : groups[i].specialist = spec
    THEN CHOOSE i \in 1..Len(groups) : groups[i].specialist = spec
    ELSE 0

\* one call of the reducer (lines 46-66) on accumulator acc and record curr
Reducer(acc, curr) ==
    LET spec == trim(OrElse(curr.realizado_por, SIN_ASIGNAR))
        mod == toUpperCase(trim(OrElse(curr.modalidad, N_A)))
        groups == IF GroupIndex(acc.groups, spec) = 0
                  THEN Append(acc.groups, NewSummary(spec))
                  ELSE acc.groups
        i == GroupIndex(groups, spec)
        g == groups[i]
    IN  IF acc.threw THEN acc
        ELSE IF spec \in ObjectPrototypeKeys
             \* acc[spec] is the inherited value: no group is created and
             \* acc[spec].modalities[mod] reads a property of undefined
             THEN [acc EXCEPT !.threw = TRUE]
        ELSE [acc EXCEPT !.groups =
                 [groups EXCEPT ![i] =
                     [ specialist    |-> g.specialist,
                       totalStudies  |-> g.totalStudies + 1,
                       modalities    |-> CountOne(g.modalities, mod),
                       subcategories |-> PlusPlus(g.subcategories, curr.subcategory) ]]]

\* data.reduce(reducer, {})
RECURSIVE Reduce(_, _)
Reduce(acc, records) ==
    IF records = <<>> THEN acc
    ELSE Reduce(Reducer(acc, Head(records)), Tail(records))

\* the array-index keys of groups in ascending numeric order
RECURSIVE IndexKeysAscending(_)
IndexKeysAscending(groups) ==
    LET IsIndexGroup(g) == IsArrayIndex(g.specialist)
        indexed == SelectSeq(groups, IsIndexGroup)
    IN  IF indexed = <<>> THEN <<>>
        ELSE LET least == CHOOSE i \in 1..Len(indexed) :
                     \A j \in 1..Len(indexed) :
                         NumeralAtMost(indexed[i].specialist, indexed[j].specialist)
                 IsOther(g) == g # indexed[least]
             IN  <<indexed[least]>> \o IndexKeysAscending(SelectSeq(indexed, IsOther))

\* Object.values: the array-index keys in ascending numeric order, then the
\* other keys in the order of their creation
ObjectValues(groups) ==
    LET IsNamedGroup(g) == ~IsArrayIndex(g.specialist)
    IN  IndexKeysAscending(groups) \o SelectSeq(groups, IsNamedGroup)

\* x inserted behind every element of sorted that does not sort after it
\* under (a, b) => b.totalStudies - a.totalStudies
InsertByTotal(sorted, x) ==
    LET Stays(i) == sorted[i].totalStudies >= x.totalStudies
        n == Cardinality({i \in 1..Len(sorted) : \A j \in 1..i : Stays(j)})
    IN  SubSeq(sorted, 1, n) \o <<x>> \o SubSeq(sorted, n + 1, Len(sorted))

\* Array.prototype.sort with that comparator: a stable sort
RECURSIVE SortByTotal(_)
SortByTotal(list) ==
    IF list = <<>> THEN <<>>
    ELSE InsertByTotal(SortByTotal(SubSeq(list, 1, Len(list) - 1)), list[Len(list)])

\* the call: threw tells that it ended in a TypeError, value is what it returned
getSummaryBySpecialist(records) ==
    LET grouped == Reduce([threw |-> FALSE, groups |-> <<>>], records)
    IN  IF grouped.threw
        THEN [threw |-> TRUE, value |-> <<>>]
        ELSE [threw |-> FALSE, value |-> SortByTotal(ObjectValues(grouped.groups))]

(***************************************************************************)
(* The aggregator on its own: every sequence of at most MaxRecords of the  *)
(* records below.                                                          *)
(***************************************************************************)
MaxRecords == 4

\* a study of the given specialist and modality with the given subcategory
Classified(realizado_por, modalidad, subcategory) ==
    [Study(<<"R","x">>, modalidad, realizado_por, <<"2","0","2","4","-","0","1","-","1","0">>) EXCEPT !.subcategory = subcategory]

SummaryRecords ==
    { Classified(<<"A">>, <<"C","T">>, "CONTRASTADOS"),
      Classified(<<"A"," ">>, <<"c","r">>, "ESPECIALES"),
      Classified(<<"B">>, <<"C","T">>, "STANDARD"),
      Classified(<<"2">>, <<"U","S">>, "STANDARD"),
      Classified(<<"1">>, <<"M","G">>, "CONTRASTADOS"),
      Classified(<<>>, <<" ">>, "STANDARD"),
      Classified(<<" ">>, <<>>, "STANDARD"),
      Classified(Undefined, Undefined, "ESPECIALES"),
      Classified(<<"c","o","n","s","t","r","u","c","t","o","r">>, <<"C","T">>, "STANDARD"),
      Classified(<<"B">>, <<"X","X">>, "undefined") }

RECURSIVE SequencesUpTo(_, _)
SequencesUpTo(elements, n) ==
    IF n = 0 THEN {<<>>}
    ELSE LET shorter == SequencesUpTo(elements, n - 1)
         IN  shorter \cup {Append(s, e) : s \in shorter, e \in elements}

SummaryInit ==
    /\ arg \in SequencesUpTo(SummaryRecords, MaxRecords)
    /\ ret = <<>>
    /\ timezone = 0
    /\ AppInit

\* getSummaryBySpecialist(arg)
Summarize ==
    /\ Len(ret) = 0
    /\ ret' = <<getSummaryBySpecialist(arg)>>
    /\ UNCHANGED <<arg, appVars, timezone>>

SummaryNext == Summarize

SpecSummary == SummaryInit /\ [][SummaryNext]_vars

(***************************************************************************)
(* dateRange, App.tsx.  An instant is a number of hours since              *)
(* 1970-01-01T00:00Z, or NaN.                                              *)
(***************************************************************************)
\* s.split(/[\/\-]/)
RECURSIVE Split(_)
Split(s) ==
    IF \E i \in 1..Len(s) : s[i] \in {"/", "-"}
    THEN LET i == CHOOSE k \in 1..Len(s) :
                 /\ s[k] \in {"/", "-"}
                 /\ \A j \in 1..(k - 1) : s[j] \notin {"/", "-"}
         IN  <<SubSeq(s, 1, i - 1)>> \o Split(SubSeq(s, i + 1, Len(s)))
    ELSE <<s>>

RECURSIVE ParseDigits(_)
ParseDigits(s) ==
    IF s = <<>> THEN 0
    ELSE 10 * ParseDigits(SubSeq(s, 1, Len(s) - 1)) + DigitValue(s[Len(s)])

AllDigits(s) == \A i \in 1..Len(s) : IsDigit(s[i])

IsLeapYear(y) == (y % 4 = 0 /\ y % 100 # 0) \/ y % 400 = 0

DaysInMonth(y, m) ==
    IF m = 2 THEN (IF IsLeapYear(y) THEN 29 ELSE 28)
    ELSE IF m \in {4, 6, 9, 11} THEN 30 ELSE 31

\* the number of days from 1970-01-01 to the civil date y-m-d
DaysFromCivil(y, m, d) ==
    LET yy  == IF m <= 2 THEN y - 1 ELSE y
        era == yy \div 400
        yoe == yy - era * 400
        mp  == IF m > 2 THEN m - 3 ELSE m + 9
        doy == (153 * mp + 2) \div 5 + d - 1
        doe == yoe * 365 + yoe \div 4 - yoe \div 100 + doy
    IN  era * 146097 + doe - 719468

\* the year, month and day parts name a day of the calendar
IsCivilDate(parts) ==
    /\ Len(parts) = 3
    /\ Len(parts[1]) = 4 /\ Len(parts[2]) = 2 /\ Len(parts[3]) = 2
    /\ AllDigits(parts[1]) /\ AllDigits(parts[2]) /\ AllDigits(parts[3])
    /\ ParseDigits(parts[2]) \in 1..12
    /\ ParseDigits(parts[3]) \in 1..DaysInMonth(ParseDigits(parts[1]), ParseDigits(parts[2]))

\* new Date(str).getTime() for the three shapes of the model's date strings:
\* YYYY-MM-DD is the date-only form of the standard and is read as UTC
\* midnight; YYYY/MM/DD is read as midnight of the local time zone; a string
\* that names no date gives NaN
DateParse(str, tz) ==
    LET parts == Split(str)
        days  == DaysFromCivil(ParseDigits(parts[1]), ParseDigits(parts[2]), ParseDigits(parts[3]))
    IN  IF ~IsCivilDate(parts) THEN NaN
        ELSE IF \A i \in 1..Len(str) : str[i] # "/" THEN days * 24
        ELSE IF \A i \in 1..Len(str) : str[i] # "-" THEN days * 24 + tz
        ELSE NaN

\* parseDate reading the first part as the month and the second as the day
parseDateMonthFirst(s, tz) ==
    LET parts == Split(s)
    IN  IF Len(parts) = 3 /\ Len(parts[1]) = 2 /\ Len(parts[3]) = 4
        THEN DateParse(parts[3] \o <<"-">> \o parts[1] \o <<"-">> \o parts[2], tz)
        ELSE DateParse(s, tz)

\* parseDate of the comparator (lines 148-157)
parseDate(s, tz) ==
    LET parts == Split(s)
    IN  IF Len(parts) = 3 /\ Len(parts[1]) = 2 /\ Len(parts[3]) = 4
        THEN DateParse(parts[3] \o <<"-">> \o parts[2] \o <<"-">> \o parts[1], tz)
        ELSE DateParse(s, tz)

\* the comparator (a, b) => parseDate(a) - parseDate(b) as sort reads it: the
\* sign of the difference, a NaN difference counting as 0
Compare(a, b, tz) ==
    LET x == parseDate(a, tz)
        y == parseDate(b, tz)
    IN  IF x = NaN \/ y = NaN THEN 0
        ELSE IF x < y THEN -1
        ELSE IF x > y THEN 1
        ELSE 0

\* the comparator is a consistent comparator for the elements of list; c is
\* the table of its results for every two of them
IsConsistent(list, tz) ==
    \E c \in {[i \in 1..Len(list) |-> [j \in 1..Len(list) |-> Compare(list[i], list[j], tz)]]} :
        \A i, j, k \in 1..Len(list) :
            /\ (c[i][j] = 0 /\ c[j][k] = 0) => c[i][k] = 0
            /\ (c[i][j] < 0 /\ c[j][k] < 0) => c[i][k] < 0
            /\ (c[i][j] > 0 /\ c[j][k] > 0) => c[i][k] > 0
            /\ (c[i][j] < 0) <=> (c[j][i] > 0)

\* x inserted behind every element of sorted that does not sort after it
InsertByInstant(sorted, x, tz) ==
    LET Stays(i) == Compare(sorted[i], x, tz) <= 0
        n == Cardinality({i \in 1..Len(sorted) : \A j \in i..Len(sorted) : ~Stays(j)})
        m == Len(sorted) - n
    IN  SubSeq(sorted, 1, m) \o <<x>> \o SubSeq(sorted, m + 1, Len(sorted))

\* the stable sort of list under the comparator
RECURSIVE SortByInstant(_, _)
SortByInstant(list, tz) ==
    IF list = <<>> THEN <<>>
    ELSE InsertByInstant(SortByInstant(SubSeq(list, 1, Len(list) - 1), tz), list[Len(list)], tz)

PermutationsOf(list) ==
    LET n == Len(list)
        bijections == {p \in [1..n -> 1..n] : \A i, j \in 1..n : p[i] = p[j] => i = j}
    IN  {[i \in 1..n |-> list[p[i]]] : p \in bijections}

\* what [...validDates].sort(comparator) can return: the stable sort when the
\* comparator is consistent, and otherwise an order the engine chooses
SortOutcomes(list, tz) ==
    IF IsConsistent(list, tz) THEN {SortByInstant(list, tz)} ELSE PermutationsOf(list)

NotApplicable == [min |-> N_A, max |-> N_A]

\* the filter of the dates without its trim: f && f !== ''
IsValidDateNoTrim(f) == f # Undefined /\ f # <<>>

\* f && f.trim() !== ''
IsValidDate(f) == f # Undefined /\ f # <<>> /\ trim(f) # <<>>

\* dateRange without the test for an empty collection
DateRangeNoEmptyTest(records, tz) ==
    LET dates == [i \in 1..Len(records) |-> records[i].fecha_realizado]
        validDates == SelectSeq(dates, IsValidDate)
    IN  IF Len(validDates) = 0 THEN {NotApplicable}
        ELSE {[min |-> sorted[1], max |-> sorted[Len(sorted)]] :
                 sorted \in SortOutcomes(validDates, tz)}

\* the values the dateRange memo can take for filteredData (lines 133-162)
DateRangeOutcomes(records, tz) ==
    LET dates == [i \in 1..Len(records) |-> records[i].fecha_realizado]
        validDates == SelectSeq(dates, IsValidDate)
    IN  IF Len(records) = 0 THEN {EmptyRange}
        ELSE IF Len(validDates) = 0 THEN {NotApplicable}
        ELSE {[min |-> sorted[1], max |-> sorted[Len(sorted)]] :
                 sorted \in SortOutcomes(validDates, tz)}

(***************************************************************************)
(* The date range on its own: every sequence of at most MaxDated studies   *)
(* with the dates below, in a browser of each time zone.                   *)
(***************************************************************************)
MaxDated == 3

\* UTC and UTC-5
TimezoneOffsets == {0, 5}

DateStrings ==
    { <<"1","5","/","0","3","/","2","0","2","4">>, <<"2","0","2","4","-","0","1","-","1","0">>, <<"2","0","/","0","2","/","2","0","2","4">>, <<"1","0","-","0","1","-","2","0","2","4">>, <<"2","0","2","4","/","0","1","/","1","0">>,
      <<"N","/","D">>, <<>>, <<" ">> }

DatedRecords == { Study(<<"R","x">>, <<"C","R">>, <<"A">>, f) : f \in DateStrings }

RangeInit ==
    /\ arg \in SequencesUpTo(DatedRecords, MaxDated)
    /\ ret = <<>>
    /\ timezone \in TimezoneOffsets
    /\ AppInit

\* the dateRange memo evaluated on arg
ResolveRange ==
    /\ Len(ret) = 0
    /\ \E range \in DateRangeOutcomes(arg, timezone) : ret' = <<range>>
    /\ UNCHANGED <<arg, appVars, timezone>>

RangeNext == ResolveRange

SpecRange == RangeInit /\ [][RangeNext]_vars

(***************************************************************************)
(* exportToWord, wordExport.ts.  The report is modelled by what its HTML   *)
(* prints: the header values, the rows of the summary table and the        *)
(* records of the detailed listing.                                        *)
(***************************************************************************)
\* the filter of lines 5-7
ExportFiltered(d, filter) ==
    LET IsOfSpecialist(r) == r.realizado_por = filter
    IN  IF filter = All THEN d ELSE SelectSeq(d, IsOfSpecialist)

\* the row a specialist starts with (lines 14-24)
NewStats(spec) ==
    [ name |-> spec, total |-> 0, ct_std |-> 0, ct_cont |-> 0, cr_std |-> 0,
      cr_esp |-> 0, mg |-> 0, us |-> 0, otros |-> 0 ]

\* the column of its row a record is counted in (lines 30-45)
StatsColumn(record) ==
    LET mod == trim(toUpperCase(OrElse(record.modalidad, <<>>)))
        sub == record.subcategory
    IN  IF mod = <<"C","T">> THEN (IF sub = "CONTRASTADOS" THEN "ct_cont" ELSE "ct_std")
        ELSE IF mod = <<"C","R">> THEN (IF sub = "ESPECIALES" THEN "cr_esp" ELSE "cr_std")
        ELSE IF mod = <<"M","G">> THEN "mg"
        ELSE IF mod = <<"U","S">> THEN "us"
        ELSE "otros"

\* the index in rows of the row of spec, 0 when there is none
StatsIndex(rows, spec) ==
    IF \E i \in 1..Len(rows) : rows[i].name = spec
    THEN CHOOSE i \in 1..Len(rows) : rows[i].name = spec
    ELSE 0

\* one turn of the forEach (lines 11-46) on the rows so far.  For a name
\* inherited from Object.prototype specStats[spec] is the inherited object:
\* no row is created and the counters are written to that object
CountInStats(rows, record) ==
    LET spec == trim(OrElse(record.realizado_por, N_A))
        started == IF StatsIndex(rows, spec) = 0
                   THEN Append(rows, NewStats(spec))
                   ELSE rows
        i == StatsIndex(started, spec)
        column == StatsColumn(record)
    IN  IF spec \in ObjectPrototypeKeys THEN rows
        ELSE [started EXCEPT ![i] =
                 [k \in DOMAIN started[i] |->
                     IF k \in {"total", column} THEN started[i][k] + 1 ELSE started[i][k]]]

\* filtered.forEach(...)
RECURSIVE SpecStats(_, _)
SpecStats(rows, records) ==
    IF records = <<>> THEN rows
    ELSE SpecStats(CountInStats(rows, Head(records)), Tail(records))

\* Object.values(specStats) (line 100): the rows in the order of ObjectValues
StatsValues(rows) ==
    LET keys == ObjectValues([i \in 1..Len(rows) |-> [specialist |-> rows[i].name]])
    IN  [i \in 1..Len(keys) |-> rows[StatsIndex(rows, keys[i].specialist)]]

\* what the report of exportToWord(d, filter, range) prints: the period and
\* the filter of its header (lines 78-79), the total of line 81, the rows of
\* the summary table (lines 100-112) and the records the detailed listing
\* holds (lines 130-141; their order in the listing, lines 49-53, is left out)
exportToWord(d, filter, range) ==
    LET filtered == ExportFiltered(d, filter)
    IN  [ period           |-> range,
          filterSpecialist |-> filter,
          total            |-> Len(filtered),
          specStats        |-> StatsValues(SpecStats(<<>>, filtered)),
          patients         |-> filtered ]

(***************************************************************************)
(* The application, App.tsx: the loaded data set, the two filters, the     *)
(* files whose FileReader has not called onload yet, and the three memos   *)
(* computed from them on every render.                                     *)
(***************************************************************************)
ALLOWED_MODALITIES == { <<"C","T">>, <<"U","S">>, <<"C","R">>, <<"M","G">> }

\* record[internalKey] = val?.trim() || ''
Cell(val) == IF val = Undefined THEN <<>> ELSE trim(val)

\* !val || val.trim() === ''
IsBlank(val) == val = Undefined \/ trim(val) = <<>>

\* the record built from one parsed row (lines 76-92): row holds the value
\* found for each recognized column and third holds rowValues[2]
MapRow(row) ==
    LET desc == IF IsBlank(row.descripcion) /\ row.third # Undefined /\ row.third # <<>>
                THEN row.third
                ELSE row.descripcion
    IN  classifyRecord(
            [ id_paciente      |-> Cell(row.id_paciente),
              nombre_paciente  |-> Cell(row.nombre_paciente),
              descripcion      |-> Cell(desc),
              region           |-> Cell(row.region),
              fecha_realizado  |-> Cell(row.fecha_realizado),
              modalidad        |-> Cell(row.modalidad),
              realizado_por    |-> Cell(row.realizado_por),
              estado_reporte   |-> Cell(row.estado_reporte),
              fecha_reporte    |-> Cell(row.fecha_reporte),
              subcategory      |-> "undefined" ])

\* the filter of cleanData keeping every row that has a patient id
IsAdmissibleAnyModality(d) == d.id_paciente # <<>> /\ trim(d.id_paciente) # <<>>

\* the filter of cleanData (lines 94-99)
IsAdmissible(d) ==
    LET hasId == d.id_paciente # <<>> /\ trim(d.id_paciente) # <<>>
        mod == toUpperCase(trim(OrElse(d.modalidad, <<>>)))
    IN  hasId /\ mod \in ALLOWED_MODALITIES

CleanData(rows) == SelectSeq([i \in 1..Len(rows) |-> MapRow(rows[i])], IsAdmissible)

\* the filteredData memo (lines 123-130)
FilteredData(d, filter, term) ==
    LET Matches(r) ==
            LET matchSpec == filter = All \/ r.realizado_por = filter
                matchSearch ==
                    \/ includes(toLowerCase(OrElse(r.nombre_paciente, <<>>)), toLowerCase(term))
                    \/ includes(OrElse(r.id_paciente, <<>>), term)
            IN  matchSpec /\ matchSearch
    IN  SelectSeq(d, Matches)

\* the options of the specialist select besides All (lines 118-121, 284)
Specialists(d) == {d[i].realizado_por : i \in 1..Len(d)} \ {<<>>}

\* a render after the state became d, filter, term: the memos are recomputed
Render(d, filter, term) ==
    /\ filteredData' = FilteredData(d, filter, term)
    /\ summary' = getSummaryBySpecialist(filteredData')
    /\ dateRange' \in DateRangeOutcomes(filteredData', timezone)

\* getSummaryBySpecialist threw during a render: React unmounts the application
Crashed == summary.threw

\* a parsed row: the raw value of each column and of the row's third field
Row(id, nombre, descripcion, third, fecha, modalidad, por) ==
    [ id_paciente      |-> id,
      nombre_paciente  |-> nombre,
      descripcion      |-> descripcion,
      third            |-> third,
      region           |-> <<"T","O","R","A","X">>,
      fecha_realizado  |-> fecha,
      modalidad        |-> modalidad,
      realizado_por    |-> por,
      estado_reporte   |-> <<"O","K"," ">>,
      fecha_reporte    |-> Undefined ]

\* a file: whether a header line was found, and the rows Papa.parse yields
NoHeaderFile == [header |-> FALSE, rows |-> <<>>]

NoRowsFile == [header |-> TRUE, rows |-> <<>>]

MixedFile ==
    [ header |-> TRUE,
      rows |-> << Row(<<"P","1">>, <<"A","n","a">>, <<"T","A","C"," ","a","b","d","o","m","e","n"," ","(","c","o","n"," ","c","o","n","t","r","a","s","t","e",")">>, <<"x">>, <<"1","5","/","0","3","/","2","0","2","4">>, <<"C","T">>, <<"A">>),
                  Row(<<>>, <<"L","u","i","s">>, <<"E","c","o">>, <<"x">>, <<"2","0","/","0","2","/","2","0","2","4">>, <<"U","S">>, <<"A">>),
                  Row(<<"P","2">>, <<"L","u","i","s">>, <<"C","o","l","o","n"," ","p","o","r"," ","e","n","e","m","a">>, <<"x">>, <<"2","0","2","4","-","0","1","-","1","0">>, <<" ","c","r"," ">>, <<"B"," ">>),
                  Row(<<"P","3">>, <<"E","v","a">>, <<"R","M">>, <<"x">>, <<"2","0","2","4","-","0","1","-","1","0">>, <<"M","R">>, <<"B">>) >> ]

BlankDatesFile ==
    [ header |-> TRUE,
      rows |-> << Row(<<"P","4">>, <<"E","v","a">>, <<>>, <<"E","c","o"," ","(","c","o","n","t","r","a","s","t","e",")">>, <<" ">>, <<"u","s">>, <<"A">>),
                  Row(<<"P","5">>, <<"A","n","a">>, <<"M","a","m","o","g","r","a","f","i","a">>, <<"x">>, Undefined, <<"M","G">>, <<>>) >> ]

RejectedFile ==
    [ header |-> TRUE,
      rows |-> << Row(<<" ">>, <<"A","n","a">>, <<"T","A","C">>, <<"x">>, <<"2","0","2","4","-","0","1","-","1","0">>, <<"C","T">>, <<"A">>),
                  Row(<<"P","6">>, <<"A","n","a">>, <<"T","A","C">>, <<"x">>, <<"2","0","2","4","-","0","1","-","1","0">>, Undefined, <<"A">>) >> ]

DatesFile ==
    [ header |-> TRUE,
      rows |-> << Row(<<"P","7">>, <<"A","n","a">>, <<"R","x">>, <<"x">>, <<"1","5","/","0","3","/","2","0","2","4">>, <<"C","R">>, <<"2">>),
                  Row(<<"P","8">>, <<"L","u","i","s">>, <<"R","x"," ","c","o","n","t","r","a","s","t","a","d","o">>, <<"x">>, <<"2","0","2","4","-","0","1","-","1","0">>, <<"C","R">>, <<"1">>),
                  Row(<<"P","9">>, <<"E","v","a">>, <<"R","x">>, <<"x">>, <<"2","0","/","0","2","/","2","0","2","4">>, <<"C","R">>, <<"1">>),
                  Row(<<"P","1">>, <<"A","n","a">>, <<"R","x">>, <<"x">>, <<"N","/","D">>, <<"C","R">>, <<"2">>) >> ]

PrototypeNameFile ==
    [ header |-> TRUE,
      rows |-> << Row(<<"P","1">>, <<"A","n","a">>, <<"R","x">>, <<"x">>, <<"2","0","2","4","-","0","1","-","1","0">>, <<"C","R">>, <<"A">>),
                  Row(<<"P","2">>, <<"L","u","i","s">>, <<"R","x">>, <<"x">>, <<"2","0","2","4","-","0","1","-","1","0">>, <<"C","R">>, <<"c","o","n","s","t","r","u","c","t","o","r">>) >> ]

UploadFiles ==
    { NoHeaderFile, NoRowsFile, MixedFile, BlankDatesFile, RejectedFile, DatesFile,
      PrototypeNameFile }

SearchTerms == { <<>>, <<"a","n">>, <<"P","1">> }

MaxReading == 1

Init ==
    /\ arg = <<>>
    /\ ret = <<>>
    /\ timezone \in TimezoneOffsets
    /\ AppInit

\* handleFileUpload (lines 40-45, 115): the event carries a file or none
HandleFileUpload ==
    /\ ~Crashed
    /\ \/ UNCHANGED <<loading, reading>>
       \/ /\ Len(reading) < MaxReading
          /\ \E file \in UploadFiles : reading' = Append(reading, file)
          /\ loading' = TRUE
    /\ ret' = <<>>
    /\ UNCHANGED <<arg, timezone, data, filterSpecialist, searchTerm,
                   filteredData, dateRange, summary>>

\* reader.onload of one of the files being read (lines 46-114).  Papa.parse of
\* a string runs synchronously and reports through complete; its error
\* callback (lines 108-112) is not reached for string input.
ReaderOnload ==
    /\ ~Crashed
    /\ \E i \in 1..Len(reading) :
          LET file == reading[i]
              cleanData == CleanData(file.rows)
          IN  /\ reading' = SubSeq(reading, 1, i - 1) \o SubSeq(reading, i + 1, Len(reading))
              /\ loading' = FALSE
              /\ IF file.header /\ Len(file.rows) > 0
                 THEN /\ data' = cleanData
                      /\ Render(cleanData, filterSpecialist, searchTerm)
                 ELSE UNCHANGED <<data, filteredData, dateRange, summary>>
    /\ ret' = <<>>
    /\ UNCHANGED <<arg, timezone, filterSpecialist, searchTerm>>

\* onChange of the specialist select (line 280)
SetFilterSpecialist ==
    /\ ~Crashed
    /\ \E value \in {All} \cup Specialists(data) :
          /\ filterSpecialist' = value
          /\ Render(data, value, searchTerm)
    /\ ret' = <<>>
    /\ UNCHANGED <<arg, timezone, data, loading, reading, searchTerm>>

\* onChange of the search input (line 294)
SetSearchTerm ==
    /\ ~Crashed
    /\ \E value \in SearchTerms :
          /\ searchTerm' = value
          /\ Render(data, filterSpecialist, value)
    /\ ret' = <<>>
    /\ UNCHANGED <<arg, timezone, data, loading, reading, filterSpecialist>>

\* onClick of RESETEAR VISTA (line 301)
ResetView ==
    /\ ~Crashed
    /\ filterSpecialist' = All
    /\ searchTerm' = <<>>
    /\ Render(data, All, <<>>)
    /\ ret' = <<>>
    /\ UNCHANGED <<arg, timezone, data, loading, reading>>

\* onClick of REPORTE WORD (lines 205-206): the button is disabled while no
\* data is loaded.  ret holds what the step just taken downloaded: the report
\* after a click of this button, nothing after any other step
ExportToWord ==
    /\ ~Crashed
    /\ Len(data) # 0
    /\ ret' = <<exportToWord(data, filterSpecialist, dateRange)>>
    /\ UNCHANGED <<arg, timezone, appVars>>

Next ==
    \/ HandleFileUpload
    \/ ReaderOnload
    \/ SetFilterSpecialist
    \/ SetSearchTerm
    \/ ResetView
    \/ ExportToWord

Spec == Init /\ [][Next]_vars

(***************************************************************************)
(* Claims about the classifier.                                            *)
(***************************************************************************)
\* the normalized description of the record holds CONTRASTE or CONTRASTADO
MentionsContrast(record) ==
    LET d == normalize(record.descripcion)
    IN  includes(d, <<"C","O","N","T","R","A","S","T","E">>) \/ includes(d, <<"C","O","N","T","R","A","S","T","A","D","O">>)

\* the upper-cased trimmed modality of the record
ModalityCode(record) == trim(toUpperCase(OrElse(record.modalidad, <<>>)))

\* C1: whatever its modality, a record whose normalized description contains
\* CONTRASTE or CONTRASTADO is classified CONTRASTADOS, also when it matches no
\* entry of the CT list and when it matches an entry of the CR list.
C1_ContrastKeywordWins ==
    (Len(ret) >= 1 /\ MentionsContrast(arg)) => ret[1].subcategory = "CONTRASTADOS"

\* a CR study matching the special-procedure list and mentioning contrast
\* has been classified CONTRASTADOS
C1_Witness ==
    /\ Len(ret) >= 1
    /\ ModalityCode(arg) = <<"C","R">>
    /\ arg.descripcion = <<"C","o","l","o","n"," ","p","o","r"," ","e","n","e","m","a"," ","c","o","n"," ","c","o","n","t","r","a","s","t","e">>
    /\ SomeIncluded(normalize(arg.descripcion), ESPECIALES_PROCEDURES)
    /\ ret[1].subcategory = "CONTRASTADOS"

\* C2 as stated: every US or MG record is classified STANDARD, whatever its
\* description.
C2_UsMgAlwaysStandard ==
    (Len(ret) >= 1 /\ ModalityCode(arg) \in {<<"U","S">>, <<"M","G">>}) => ret[1].subcategory = "STANDARD"

\* C2 amended: every US or MG record whose normalized description contains
\* neither CONTRASTE nor CONTRASTADO is classified STANDARD.
C2_UsMgStandardUnlessContrast ==
    (Len(ret) >= 1 /\ ModalityCode(arg) \in {<<"U","S">>, <<"M","G">>} /\ ~MentionsContrast(arg))
        => ret[1].subcategory = "STANDARD"

\* a US study whose description matches the special-procedure list has been
\* classified STANDARD
C2_Witness ==
    /\ Len(ret) >= 1
    /\ ModalityCode(arg) = <<"U","S">>
    /\ arg.descripcion = <<"C","o","l","o","n"," ","p","o","r"," ","e","n","e","m","a">>
    /\ ret[1].subcategory = "STANDARD"

(***************************************************************************)
(* Claims about the aggregator.                                            *)
(***************************************************************************)
\* the sum of the counts of a count map
RECURSIVE SumCounts(_)
SumCounts(map) ==
    IF DOMAIN map = {} THEN 0
    ELSE LET k == CHOOSE x \in DOMAIN map : TRUE
             rest == [x \in DOMAIN map \ {k} |-> map[x]]
         IN  map[k] + SumCounts(rest)

AllClassified(records) ==
    \A i \in 1..Len(records) : records[i].subcategory \in Subcategories

\* the key getSummaryBySpecialist groups a record under
SpecialistKey(record) == trim(OrElse(record.realizado_por, SIN_ASIGNAR))

\* the position in records of the first record of the specialist
FirstSeen(records, spec) ==
    CHOOSE i \in 1..Len(records) :
        /\ SpecialistKey(records[i]) = spec
        /\ \A j \in 1..(i - 1) : SpecialistKey(records[j]) # spec

\* C3: for classified records every returned summary carries exactly the keys
\* CONTRASTADOS, ESPECIALES and STANDARD, and the three counts sum to its
\* totalStudies.
C3_SubcategoryCountsSumToTotal ==
    (Len(ret) = 1 /\ ~ret[1].threw /\ AllClassified(arg)) =>
        \A i \in 1..Len(ret[1].value) :
            LET g == ret[1].value[i] IN
            /\ DOMAIN g.subcategories = Subcategories
            /\ SumCounts(g.subcategories) = g.totalStudies

\* a summary of several studies with a zero subcategory count was returned
C3_Witness ==
    /\ Len(ret) = 1 /\ ~ret[1].threw /\ AllClassified(arg)
    /\ \E i \in 1..Len(ret[1].value) :
          LET g == ret[1].value[i] IN
          /\ g.totalStudies >= 2
          /\ g.subcategories["ESPECIALES"] >= 1
          /\ g.subcategories["STANDARD"] = 0

\* C4: in every returned summary the counts of the modalities mapping sum to
\* its totalStudies.
C4_ModalityCountsSumToTotal ==
    (Len(ret) = 1 /\ ~ret[1].threw) =>
        \A i \in 1..Len(ret[1].value) :
            SumCounts(ret[1].value[i].modalities) = ret[1].value[i].totalStudies

\* a summary with two modality keys, one of them counted twice, was returned
C4_Witness ==
    /\ Len(ret) = 1 /\ ~ret[1].threw
    /\ \E i \in 1..Len(ret[1].value) :
          LET m == ret[1].value[i].modalities IN
          /\ Cardinality(DOMAIN m) >= 2
          /\ \E k \in DOMAIN m : m[k] >= 2

\* C5: the returned sequence is in non-increasing order of totalStudies, and
\* summaries with equal totalStudies are in the order in which their specialist
\* was first seen in the input, for every specialist name.
C5_SortedTiesFirstSeen ==
    (Len(ret) = 1 /\ ~ret[1].threw) =>
        LET v == ret[1].value IN
        \A i, j \in 1..Len(v) :
            i < j =>
                /\ v[i].totalStudies >= v[j].totalStudies
                /\ v[i].totalStudies = v[j].totalStudies =>
                       FirstSeen(arg, v[i].specialist) < FirstSeen(arg, v[j].specialist)

(***************************************************************************)
(* Claims about the date range.                                            *)
(***************************************************************************)
\* the non-blank date strings of the records, in order
NonBlankDates(records) ==
    SelectSeq([i \in 1..Len(records) |-> records[i].fecha_realizado], IsValidDate)

\* the instant a date string stands for: three parts with a first part of 2
\* and a last part of 4 characters are day, month and year; any other string
\* is read directly
InstantOf(s, tz) ==
    LET parts == Split(s)
    IN  IF Len(parts) = 3 /\ Len(parts[1]) = 2 /\ Len(parts[3]) = 4
        THEN IF IsCivilDate(<<parts[3], parts[2], parts[1]>>)
             THEN 24 * DaysFromCivil(ParseDigits(parts[3]), ParseDigits(parts[2]),
                                     ParseDigits(parts[1]))
             ELSE NaN
        ELSE DateParse(s, tz)

DocumentedDates == << <<"1","5","/","0","3","/","2","0","2","4">>, <<"2","0","2","4","-","0","1","-","1","0">>, <<"2","0","/","0","2","/","2","0","2","4">> >>

\* C7: when every non-blank date string parses to a valid instant, min is an
\* input string of the earliest instant and max an input string of the latest,
\* both verbatim; the documented three dates give 2024-01-10 and 15/03/2024.
C7_RangeIsEarliestAndLatest ==
    LET dates == NonBlankDates(arg)
        AllParse == \A i \in 1..Len(dates) : InstantOf(dates[i], timezone) # NaN
    IN  (Len(ret) = 1 /\ Len(dates) > 0 /\ AllParse) =>
            /\ \E i \in 1..Len(dates) : dates[i] = ret[1].min
            /\ \E i \in 1..Len(dates) : dates[i] = ret[1].max
            /\ \A i \in 1..Len(dates) :
                  /\ InstantOf(ret[1].min, timezone) <= InstantOf(dates[i], timezone)
                  /\ InstantOf(ret[1].max, timezone) >= InstantOf(dates[i], timezone)
            /\ dates = DocumentedDates =>
                  ret[1] = [min |-> <<"2","0","2","4","-","0","1","-","1","0">>, max |-> <<"1","5","/","0","3","/","2","0","2","4">>]

\* the range of the three documented dates has been resolved
C7_Witness ==
    /\ Len(ret) = 1
    /\ NonBlankDates(arg) = DocumentedDates
    /\ ret[1].min = <<"2","0","2","4","-","0","1","-","1","0">>
    /\ ret[1].max = <<"1","5","/","0","3","/","2","0","2","4">>

(***************************************************************************)
(* Claims about the application.                                           *)
(***************************************************************************)
\* C6: on an empty collection getSummaryBySpecialist returns the empty
\* sequence and the date range is {min: '', max: ''}; on a non-empty collection
\* whose fecha_realizado are all empty or white space the date range is the
\* distinct {min: 'N/A', max: 'N/A'}.
C6_EmptyAndNoDateSentinels ==
    /\ filteredData = <<>> =>
          /\ ~summary.threw
          /\ summary.value = <<>>
          /\ dateRange = [min |-> <<>>, max |-> <<>>]
    /\ (filteredData # <<>> /\ NonBlankDates(filteredData) = <<>>) =>
          /\ dateRange = [min |-> <<"N","/","A">>, max |-> <<"N","/","A">>]
          /\ dateRange # EmptyRange

\* studies without any date are shown, and their range is the N/A sentinel
C6_Witness ==
    /\ Len(filteredData) = 2
    /\ NonBlankDates(filteredData) = <<>>
    /\ dateRange = NotApplicable
    /\ ~summary.threw /\ summary.value # <<>>

\* C10: every record of the loaded data set, hence every record passed to
\* getSummaryBySpecialist, has a non-empty patient id and a modality that,
\* trimmed and upper-cased, is one of CT, US, CR, MG.
C10_OnlyAdmissibleRecordsLoaded ==
    LET Admissible(r) ==
            /\ r.id_paciente # <<>>
            /\ ModalityCode(r) \in { <<"C","T">>, <<"U","S">>, <<"C","R">>, <<"M","G">> }
    IN  /\ \A i \in 1..Len(data) : Admissible(data[i])
        /\ \A i \in 1..Len(filteredData) : Admissible(filteredData[i])

\* the file with two inadmissible rows among four is loaded, two records
\* remain, and a specialist filter is active
C10_Witness ==
    /\ data = CleanData(MixedFile.rows)
    /\ Len(data) = 2
    /\ filterSpecialist # All
    /\ Len(filteredData) = 1

(***************************************************************************)
(* Claims about the grouping keys of the aggregator.                       *)
(***************************************************************************)
\* the sum of totalStudies over a sequence of summaries
RECURSIVE SumTotals(_)
SumTotals(summaries) ==
    IF summaries = <<>> THEN 0
    ELSE Head(summaries).totalStudies + SumTotals(Tail(summaries))

\* C19: every call counts every input record exactly once: it returns
\* summaries of pairwise distinct specialist names, each of a totalStudies of
\* at least 1, whose totals sum to the number of input records; the input
\* records are never changed.
C19_EveryRecordCountedOnce ==
    /\ [](Len(ret) = 1 =>
            LET v == ret[1].value IN
            /\ ~ret[1].threw
            /\ \A i, j \in 1..Len(v) : i # j => v[i].specialist # v[j].specialist
            /\ \A i \in 1..Len(v) : v[i].totalStudies >= 1
            /\ SumTotals(v) = Len(arg))
    /\ [][arg' = arg]_vars

\* the bucket the specification gives a record: its trimmed specialist name,
\* SIN ASIGNAR when the name is missing or empty after trimming
UnassignedOrTrimmed(record) ==
    IF record.realizado_por = Undefined \/ trim(record.realizado_por) = <<>>
    THEN SIN_ASIGNAR
    ELSE trim(record.realizado_por)

\* C11: the returned summaries group the records by trimmed specialist name, a
\* record whose name is missing or empty after trimming (white space only
\* included) is counted under SIN ASIGNAR, and no summary has the empty string
\* as its specialist.
C11_BlankNamesUnassigned ==
    (Len(ret) = 1 /\ ~ret[1].threw) =>
        LET v == ret[1].value IN
        /\ \A i \in 1..Len(v) : v[i].specialist # <<>>
        /\ \A k \in 1..Len(arg) :
              \E i \in 1..Len(v) :
                  /\ v[i].specialist = UnassignedOrTrimmed(arg[k])
                  /\ v[i].totalStudies =
                        Cardinality({j \in 1..Len(arg) : UnassignedOrTrimmed(arg[j]) = v[i].specialist})

\* the modality key the specification gives a record: N/A when the modality is
\* absent, empty, white space only or no known modality code, else the
\* upper-cased trimmed modality
ModalityOrNotAvailable(record) ==
    IF record.modalidad = Undefined THEN N_A
    ELSE IF toUpperCase(trim(record.modalidad)) \in ALLOWED_MODALITIES
         THEN toUpperCase(trim(record.modalidad))
         ELSE N_A

\* C12: in every returned summary each record of the group is counted in
\* exactly one entry of modalities, the one keyed by its upper-cased trimmed
\* modality, and under N/A when its modality is absent, empty, white space only
\* or not a known modality code.
C12_UnknownModalityCountsAsNA ==
    (Len(ret) = 1 /\ ~ret[1].threw) =>
        \A i \in 1..Len(ret[1].value) :
            LET g == ret[1].value[i]
                members == {j \in 1..Len(arg) : SpecialistKey(arg[j]) = g.specialist}
                keys == {ModalityOrNotAvailable(arg[j]) : j \in members}
            IN  /\ DOMAIN g.modalities = keys
                /\ \A k \in keys :
                      g.modalities[k] = Cardinality({j \in members : ModalityOrNotAvailable(arg[j]) = k})

C14_ModalityDecidesWithoutKeyword ==
    Len(ret) >= 1 =>
        LET d == normalize(arg.descripcion)
            mod == ModalityCode(arg)
            sub == ret[1].subcategory
        IN  /\ (~MentionsContrast(arg) /\ mod = <<"C","T">>) =>
                  sub = IF SomeIncluded(d, CONTRASTADOS_PROCEDURES) THEN "CONTRASTADOS" ELSE "STANDARD"
            /\ (~MentionsContrast(arg) /\ mod = <<"C","R">>) =>
                  sub = IF SomeIncluded(d, ESPECIALES_PROCEDURES) THEN "ESPECIALES" ELSE "STANDARD"
            /\ (~MentionsContrast(arg) /\ mod \notin {<<"C","T">>, <<"C","R">>}) => sub = "STANDARD"
            /\ sub = "ESPECIALES" => mod = <<"C","R">>

\* a study of modality ' ct' described by an entry of the CT list, without a
\* contrast keyword, has been classified CONTRASTADOS
C14_Witness ==
    /\ Len(ret) >= 1
    /\ arg.modalidad = <<" ","c","t">>
    /\ arg.descripcion = <<"U","r","o","t","a","c"," ","s","i","m","p","l","e">>
    /\ ~MentionsContrast(arg)
    /\ ret[1].subcategory = "CONTRASTADOS"

(***************************************************************************)
(* Further claims about the date range.                                    *)
(***************************************************************************)
\* a date string that is present and not white space only
IsNonBlankDate(f) == f # Undefined /\ \E i \in 1..Len(f) : ~IsWhiteSpace(f[i])

\* C15: for a non-empty collection with at least one non-blank date, strings
\* that cannot be parsed included, the min and the max of the resolved date
\* range are each one of the non-blank date strings of the input, and a string
\* that cannot be parsed compares as equal to every other string.
C15_RangeOfUnparsableDates ==
    LET dates == {arg[i].fecha_realizado : i \in 1..Len(arg)}
        nonBlank == {f \in dates : IsNonBlankDate(f)}
    IN  (Len(ret) = 1 /\ nonBlank # {}) =>
            /\ ret[1].min \in nonBlank
            /\ ret[1].max \in nonBlank
            /\ \A a \in nonBlank :
                  InstantOf(a, timezone) = NaN =>
                      \A b \in nonBlank :
                          Compare(a, b, timezone) = 0 /\ Compare(b, a, timezone) = 0

\* the range of three studies, one of a date that cannot be parsed, one of a
\* blank date, has been resolved, and its max is the string that cannot be
\* parsed
C15_Witness ==
    /\ Len(ret) = 1
    /\ Len(arg) = 3
    /\ \E i \in 1..3 : arg[i].fecha_realizado = <<" ">>
    /\ \E i \in 1..3 : arg[i].fecha_realizado = <<"2","0","2","4","-","0","1","-","1","0">>
    /\ ret[1] = [min |-> <<"2","0","2","4","-","0","1","-","1","0">>, max |-> <<"N","/","D">>]

\* the fields of a study that classifyRecord does not derive
NonDerivedFields ==
    { "id_paciente", "nombre_paciente", "descripcion", "region", "fecha_realizado",
      "modalidad", "realizado_por", "estado_reporte", "fecha_reporte" }

\* the record returned has the fields of arg and their values, but for
\* subcategory, which is one of the three labels
OnlySubcategoryDiffers ==
    /\ DOMAIN ret[1] = DOMAIN arg
    /\ \A f \in NonDerivedFields : ret[1][f] = arg[f]
    /\ ret[1].subcategory \in Subcategories

IsMissing(field) == field = Undefined \/ field = <<>>

\* C16 as stated: the record classifyRecord returns equals its input in the
\* nine non-derived fields, the input is never changed, and a record whose
\* description or modality is missing is STANDARD.
C16_FrameAndMissingIsStandard ==
    /\ [](Len(ret) >= 1 =>
            /\ OnlySubcategoryDiffers
            /\ (IsMissing(arg.descripcion) \/ IsMissing(arg.modalidad)) =>
                   ret[1].subcategory = "STANDARD")
    /\ [][arg' = arg]_vars

\* C16 amended: the record classifyRecord returns equals its input in the nine
\* non-derived fields, the input is never changed, a record whose description
\* is missing is STANDARD, and a record whose modality is missing is STANDARD
\* unless its normalized description holds CONTRASTE or CONTRASTADO.
C16_FrameAndMissingIsStandardUnlessContrast ==
    /\ [](Len(ret) >= 1 =>
            /\ OnlySubcategoryDiffers
            /\ IsMissing(arg.descripcion) => ret[1].subcategory = "STANDARD"
            /\ (IsMissing(arg.modalidad) /\ ~MentionsContrast(arg)) =>
                   ret[1].subcategory = "STANDARD")
    /\ [][arg' = arg]_vars

\* a study without modality, described by an entry of the CT list, has been
\* classified STANDARD, and the unclassified input is as it was
C16_Witness ==
    /\ Len(ret) >= 1
    /\ arg.modalidad = Undefined
    /\ arg.descripcion = <<"U","r","o","t","a","c"," ","s","i","m","p","l","e">>
    /\ arg.subcategory = "undefined"
    /\ ret[1].subcategory = "STANDARD"
    /\ ret[1].modalidad = Undefined

(***************************************************************************)
(* Claims about the Word report.                                           *)
(***************************************************************************)
\* the records of the report counted in the row of the summary table named
\* name
RowMembers(report, name) ==
    {j \in 1..Len(report.patients) :
        trim(OrElse(report.patients[j].realizado_por, N_A)) = name}

\* C17: in the summary table of a report every record of the specialist with
\* subcategory CONTRASTADOS is counted in the contrast column and every record
\* with subcategory ESPECIALES in the special column, the Std columns count
\* STANDARD records only, and the seven columns sum to Total.
C17_ColumnsFollowSubcategory ==
    Len(ret) = 1 =>
        LET report == ret[1] IN
        /\ \A j \in 1..Len(report.patients) :
              \E i \in 1..Len(report.specStats) : j \in RowMembers(report, report.specStats[i].name)
        /\ \A i \in 1..Len(report.specStats) :
              LET s == report.specStats[i]
                  members == RowMembers(report, s.name)
                  with == [sub \in Subcategories |->
                              {j \in members : report.patients[j].subcategory = sub}]
                  std == [mod \in {<<"C","T">>, <<"C","R">>} |->
                              {j \in with["STANDARD"] : ModalityCode(report.patients[j]) = mod}]
              IN  /\ s.ct_cont = Cardinality(with["CONTRASTADOS"])
                  /\ s.cr_esp = Cardinality(with["ESPECIALES"])
                  /\ s.ct_std = Cardinality(std[<<"C","T">>])
                  /\ s.cr_std = Cardinality(std[<<"C","R">>])
                  /\ s.ct_std + s.ct_cont + s.cr_std + s.cr_esp + s.mg + s.us + s.otros = s.total

\* C18: the period in the header of a report is the date range of the records
\* the report lists and counts.
C18_PeriodIsRangeOfListedRecords ==
    Len(ret) = 1 => ret[1].period \in DateRangeOutcomes(ret[1].patients, timezone)

(***************************************************************************)
(* Claims about the normalizer.                                            *)
(***************************************************************************)
ToraxContrasteNormalized ==
    <<"T","O","R","A","X"," ","C","O","N","T","R","A","S","T","E">>

\* C8: normalize is idempotent: normalizing the result of normalize(x) again
\* gives the same string, for every input string x.
C8_NormalizeIdempotent == Len(ret) = 2 => ret[2] = ret[1]

\* a string that normalize changes has been normalized twice
C8_Witness == Len(ret) = 2 /\ arg # Undefined /\ ret[1] # arg /\ ret[1] # <<>>

\* C9: the result of normalize holds no diacritic mark, no lower-case letter,
\* none of ( ) . , ; : -, no two consecutive white-space characters and no
\* leading or trailing white space; the documented example gives TORAX CONTRASTE.
C9_NormalizeCanonical ==
    Len(ret) >= 1 =>
        LET out == ret[1] IN
        /\ \A i \in 1..Len(out) :
              /\ ~IsCombiningMark(out[i])
              /\ ~IsAccentedLetter(out[i])
              /\ ~IsLowerCase(out[i])
              /\ ~IsPunctuation(out[i])
        /\ \A i \in 1..(Len(out) - 1) : ~(IsWhiteSpace(out[i]) /\ IsWhiteSpace(out[i + 1]))
        /\ out # <<>> => ~IsWhiteSpace(out[1]) /\ ~IsWhiteSpace(out[Len(out)])
        /\ arg = Undefined => out = <<>>
        /\ arg = ToraxContraste => out = ToraxContrasteNormalized

\* the documented example has been normalized
C9_Witness == Len(ret) >= 1 /\ arg = ToraxContraste /\ ret[1] = ToraxContrasteNormalized

====
